---- MODULE Spec2Model ----
(***************************************************************************)
(* Model of the crypto price bot of src/main.py: main() validates the     *)
(* environment and runs periodic_task(), which connects to Redis once,    *)
(* sends the "Bot online" message and then loops: fetch every symbol's    *)
(* price concurrently, save or fall back per symbol, ask OpenAI for a     *)
(* one-line analysis, build and send the Telegram message, sleep.         *)
(*                                                                         *)
(* Python values are records with the same fields so that any two can be  *)
(* compared: k is the kind of the value, v its number (0 when the kind    *)
(* carries none).  Prices are small integers standing for the floats.     *)
(* The ts and iso fields of a stored record are written but never read by *)
(* the program and are left out of the record's value.                     *)
(***************************************************************************)
EXTENDS Integers, Sequences, FiniteSets

\* ------------------------------------------------------------------ bounds
NumSymbols == 2     \* the model tracks the first NumSymbols entries of SYMBOLS
MaxPrice == 1       \* a price field holds a number in 0..MaxPrice
MaxElapsed == 310   \* the longest cycle the clock is sampled at

\* ------------------------------------------------------- program constants
POLL_INTERVAL == 300

SYMBOLS == <<"BTCUSDT", "ETHUSDT", "SOLUSDT", "XRPUSDT", "AAVEUSDT", "TRXUSDT">>

Symbols == SubSeq(SYMBOLS, 1, NumSymbols)
SymSet == {Symbols[n] : n \in 1..NumSymbols}

PriceValues == 0..MaxPrice
Durations == {0, 40, POLL_INTERVAL, MaxElapsed}

\* ------------------------------------------------------------ Python values
V(kind, num) == [k |-> kind, v |-> num]
None == V("None", 0)
Float(p) == V("float", p)
Pending == V("pending", 0)          \* a fetch task that has not returned yet
NoResponse == V("no_response", 0)   \* no HTTP exchange has ended yet

\* What the HTTP exchange of fetch_price can end with.
RespException == V("exception", 0)      \* timeout or network error
RespNon200 == V("non200", 0)            \* a status other than 200
RespMissing == V("200_missing", 0)      \* 200, JSON body without "price"
RespNonNumeric == V("200_nonnumeric", 0) \* 200, "price" is not a number
RespPrice(p) == V("200_price", p)       \* 200, "price" is the number p
Responses ==
    {RespException, RespNon200, RespMissing, RespNonNumeric}
        \cup {RespPrice(p) : p \in PriceValues}

\* What the store holds under a key price:<symbol>.
Absent == V("nil", 0)                \* r.get returns None
RawRecord(p) == V("raw_record", p)   \* JSON text of an object with "price": p
RawBadJson == V("raw_badjson", 0)    \* text that is not valid JSON
RawNoPrice == V("raw_noprice", 0)    \* JSON text of an object without "price"
StoreValues == {Absent, RawBadJson, RawNoPrice} \cup {RawRecord(p) : p \in PriceValues}

\* What price_map holds for a symbol.
Unset == V("unset", 0)               \* the key is not in the dict
Dict(p) == V("dict", p)              \* a dict with "price": p
DictNoPrice == V("dict_noprice", 0)  \* a non-empty dict without "price"
Raised == V("raised", 0)             \* the evaluation raised an exception

\* A line of a listing: the symbol with its price, or the symbol with NA.
PriceLine(s, p) == [sym |-> s, k |-> "price", v |-> p]
NALine(s) == [sym |-> s, k |-> "NA", v |-> 0]

NoAnalysis == "(No analysis)"
SummaryText == "BTC leads, others flat."
NoMessage == [body |-> <<>>, footer |-> ""]

Max(a, b) == IF a >= b THEN a ELSE b

VARIABLES
    pc,            \* where main() / periodic_task() stands
    exit_reason,   \* why the process ended: "" while it runs
    exit_code,     \* the exit status of the process: -1 while it runs
    telegram_set,  \* TELEGRAM_BOT_TOKEN and TELEGRAM_CHAT_ID are both set
    openai_set,    \* OPENAI_API_KEY is set
    r,             \* the Redis client: TRUE when connected, FALSE for None
    store,         \* the Redis keys price:<symbol>
    resp,          \* per symbol, how this cycle's HTTP exchange ended
    fetched,       \* per symbol, what fetch_price returned this cycle
    i,             \* index of the symbol the save/fallback loop is at
    price_map,     \* the cycle's snapshot
    prompt,        \* the listing openai_analyze put in its prompt
    openai_outcome, \* how this cycle's openai_analyze call ended: "" before it
    analysis,      \* what openai_analyze returned
    message,       \* the assembled Telegram message
    elapsed,       \* time the cycle took
    to_sleep,      \* the sleep that follows the cycle
    connects,      \* number of Redis connection attempts of the process
    online_sends,  \* number of "Bot online" posts attempted
    writes,        \* the r.set calls of this cycle, in order
    reads,         \* the r.get calls of this cycle, in order
    sends,         \* number of cycle messages posted this cycle
    tg_result      \* how the last send_telegram post ended: "" before any

vars == <<pc, exit_reason, exit_code, telegram_set, openai_set, r, store, resp,
          fetched, i, price_map, prompt, openai_outcome, analysis, message, elapsed,
          to_sleep, connects, online_sends, writes, reads, sends, tg_result>>

config == <<telegram_set, openai_set>>
locals == <<resp, fetched, i, price_map, prompt, openai_outcome, analysis, message,
            elapsed, to_sleep>>
calls == <<connects, online_sends, writes, reads, sends>>

AllSyms(x) == [s \in SymSet |-> x]

Key(s) == <<"price:", s>>
KeySet == {Key(s) : s \in SymSet}

\* --------------------------------------------------------- pure functions
\* fetch_price: the value returned for the way the HTTP exchange ended.
\* float(data.get("price", 0)) is 0.0 when the field is missing and raises
\* ValueError, caught by the except clause, when it is not a number.
fetch_price(rsp) ==
    IF rsp = RespException THEN None
    ELSE IF rsp = RespNon200 THEN None
    ELSE IF rsp = RespMissing THEN Float(0)
    ELSE IF rsp = RespNonNumeric THEN None
    ELSE Float(rsp.v)

\* Mutant of json_dumps: the price is stored truncated to a coarser unit.
json_dumps_truncated(p) == RawRecord((p.v \div 2) * 2)

\* save_to_redis: the text stored for a fetched price.
json_dumps(p) == RawRecord(p.v)

\* json.loads of a stored text; Raised when the text is not JSON.
json_loads(raw) ==
    IF raw.k = "raw_record" THEN Dict(raw.v)
    ELSE IF raw.k = "raw_noprice" THEN DictNoPrice
    ELSE Raised

\* Python truth value of what r.get returned and of a snapshot entry.
RawTruthy(raw) == raw # Absent
Truthy(val) == val.k \in {"dict", "dict_noprice"}
HasPrice(val) == val.k = "dict"

\* Mutant of snapshot_of_fetch: the entry is set inside the try block, after
\* the save, and is missing when the save raised.
snapshot_only_if_saved(p, saved) == IF saved THEN Dict(p.v) ELSE Unset

\* The snapshot entry of a symbol whose fetch succeeded, set after the save
\* attempt whether it raised (saved = FALSE) or not.
snapshot_of_fetch(p, saved) == Dict(p.v)

\* Mutant of snapshot_of_raw: the stored value is never used.
snapshot_ignoring_store(raw) == None

\* Mutant of snapshot_of_raw: a missing record is replaced by a default one.
snapshot_with_default(raw) ==
    IF RawTruthy(raw)
    THEN (IF json_loads(raw) = Raised THEN None ELSE json_loads(raw))
    ELSE Dict(0)

\* The snapshot entry of a symbol whose fetch failed, from what r.get returned.
snapshot_of_raw(raw) ==
    IF RawTruthy(raw)
    THEN (IF json_loads(raw) = Raised THEN None ELSE json_loads(raw))
    ELSE None

\* One line of the prompt listing of openai_analyze; Raised on KeyError.
prompt_line(s, val) ==
    IF Truthy(val)
    THEN (IF HasPrice(val) THEN PriceLine(s, val.v) ELSE Raised)
    ELSE NALine(s)

\* One line of the Telegram listing.
message_line(s, val) ==
    IF Truthy(val) /\ HasPrice(val) THEN PriceLine(s, val.v) ELSE NALine(s)

\* Mutant of message_body: symbols without a value are left out.
message_body_skipping_na(pm) ==
    LET HasValue(n) == Truthy(pm[Symbols[n]]) /\ HasPrice(pm[Symbols[n]])
        Kept == {n \in 1..NumSymbols : HasValue(n)}
        Rank(n) == Cardinality({m \in Kept : m <= n})
    IN [j \in 1..Cardinality(Kept) |->
           LET n == CHOOSE m \in Kept : Rank(m) = j
           IN message_line(Symbols[n], pm[Symbols[n]])]

\* The listing of the Telegram message: one line per symbol of SYMBOLS.
message_body(pm) == [n \in 1..NumSymbols |-> message_line(Symbols[n], pm[Symbols[n]])]

\* What openai_analyze returns for the way the completion request ended.
AnalysisText == V("str", 0)
OpenAIOutcomes == {"ok", "request_error", "malformed", "empty"}
openai_result(outcome) == IF outcome = "ok" THEN AnalysisText ELSE None

\* Mutant of message_footer: the analysis is formatted as it is, None included.
message_footer_unguarded(a) == IF a = AnalysisText THEN SummaryText ELSE "None"

\* footer = analysis if analysis else "(No analysis)".
message_footer(a) == IF a = AnalysisText THEN SummaryText ELSE NoAnalysis

\* Mutant of sleep_time: the remainder is not clamped at zero.
sleep_time_unclamped(el) == POLL_INTERVAL - el

\* to_sleep = max(0, POLL_INTERVAL - elapsed).
sleep_time(el) == Max(0, POLL_INTERVAL - el)

TelegramOutcomes == {"ok", "non200", "exception"}

\* ------------------------------------------------------------------- Init
InitLocals ==
    /\ resp = AllSyms(NoResponse)
    /\ fetched = AllSyms(Pending)
    /\ i = 0
    /\ price_map = AllSyms(Unset)
    /\ prompt = <<>>
    /\ openai_outcome = ""
    /\ analysis = None
    /\ message = NoMessage
    /\ elapsed = 0
    /\ to_sleep = 0

Init ==
    /\ pc = "main"
    /\ exit_reason = ""
    /\ exit_code = -1
    /\ telegram_set \in BOOLEAN
    /\ openai_set \in BOOLEAN
    /\ r = FALSE
    /\ store \in [KeySet -> StoreValues]
    /\ InitLocals
    /\ connects = 0
    /\ online_sends = 0
    /\ writes = <<>>
    /\ reads = <<>>
    /\ sends = 0
    /\ tg_result = ""

\* The process ends: main() returns, whatever ended periodic_task, and the
\* coroutine's locals are gone.
Exit(reason) ==
    /\ pc' = "exited"
    /\ exit_reason' = reason
    /\ exit_code' = 0
    /\ resp' = AllSyms(NoResponse)
    /\ fetched' = AllSyms(Pending)
    /\ i' = 0
    /\ price_map' = AllSyms(Unset)
    /\ prompt' = <<>>
    /\ openai_outcome' = ""
    /\ analysis' = None
    /\ message' = NoMessage
    /\ elapsed' = 0
    /\ to_sleep' = 0

\* ---------------------------------------------------------------- actions
\* main(): the environment checks.
MainMissingEnv ==
    /\ pc = "main"
    /\ ~telegram_set
    /\ Exit("missing_env")
    /\ UNCHANGED <<config, r, store, calls, tg_result>>

MainStart ==
    /\ pc = "main"
    /\ telegram_set
    /\ pc' = "connect"
    /\ UNCHANGED <<exit_reason, exit_code, config, r, store, locals, calls, tg_result>>

\* periodic_task(): redis.from_url and ping, once, before the loop.
Connect ==
    /\ pc = "connect"
    /\ \E ok \in BOOLEAN : r' = ok
    /\ connects' = connects + 1
    /\ pc' = "online"
    /\ UNCHANGED <<exit_reason, exit_code, config, store, locals, online_sends, writes,
                   reads, sends, tg_result>>

\* send_telegram(session, "*Bot online* ...").
SendOnline ==
    /\ pc = "online"
    /\ \E out \in TelegramOutcomes : tg_result' = out
    /\ online_sends' = online_sends + 1
    /\ pc' = "loop"
    /\ UNCHANGED <<exit_reason, exit_code, config, r, store, locals, connects, writes,
                   reads, sends>>

\* Top of the while loop: start = time.time(), price_map = {}, the fetch
\* tasks are created.  The call logs start over with the cycle.
BeginCycle ==
    /\ pc = "loop"
    /\ pc' = "gather"
    /\ price_map' = AllSyms(Unset)
    /\ fetched' = AllSyms(Pending)
    /\ resp' = AllSyms(NoResponse)
    /\ writes' = <<>>
    /\ reads' = <<>>
    /\ sends' = 0
    /\ tg_result' = ""
    /\ UNCHANGED <<exit_reason, exit_code, config, r, store, i, prompt, openai_outcome,
                   analysis, message, elapsed, to_sleep, connects, online_sends>>

\* Mutant of FetchReturns: a failing task cancels the tasks still running.
FetchReturnsCancelling(s) ==
    /\ pc = "gather"
    /\ fetched[s] = Pending
    /\ \E rsp \in Responses :
        /\ resp' = [resp EXCEPT ![s] = rsp]
        /\ fetched' = IF fetch_price(rsp) = None
                       THEN [t \in SymSet |-> IF fetched[t] = Pending THEN None
                                              ELSE fetched[t]]
                       ELSE [fetched EXCEPT ![s] = fetch_price(rsp)]
    /\ UNCHANGED <<pc, exit_reason, exit_code, config, r, store, i, price_map, prompt,
                   openai_outcome, analysis, message, elapsed, to_sleep, calls,
                   tg_result>>

\* One fetch_price task runs to its return, in any order among the tasks.
FetchReturns(s) ==
    /\ pc = "gather"
    /\ fetched[s] = Pending
    /\ \E rsp \in Responses :
        /\ resp' = [resp EXCEPT ![s] = rsp]
        /\ fetched' = [fetched EXCEPT ![s] = fetch_price(rsp)]
    /\ UNCHANGED <<pc, exit_reason, exit_code, config, r, store, i, price_map, prompt,
                   openai_outcome, analysis, message, elapsed, to_sleep, calls,
                   tg_result>>

\* asyncio.gather returns once every task has returned.
GatherReturns ==
    /\ pc = "gather"
    /\ \A s \in SymSet : fetched[s] # Pending
    /\ pc' = "persist"
    /\ i' = 1
    /\ UNCHANGED <<exit_reason, exit_code, config, r, store, resp, fetched, price_map,
                   prompt, openai_outcome, analysis, message, elapsed, to_sleep, calls,
                   tg_result>>

\* Mutant of NextSymbol: the loop is left before its last symbol.
NextSymbolLeavingEarly ==
    /\ i' = i + 1
    /\ pc' = IF i >= NumSymbols - 1 THEN "analyze" ELSE "persist"

\* The for loop over SYMBOLS moves on; after the last symbol comes
\* openai_analyze.
NextSymbol ==
    /\ i' = i + 1
    /\ pc' = IF i = NumSymbols THEN "analyze" ELSE "persist"

\* An r.set call as the log keeps it: its key, its value and whether it
\* returned (ok) or raised.
SetCall(key, value, ok) == [key |-> key, value |-> value, ok |-> ok]

\* Mutant of SaveFetched: a record is written only under a key that holds
\* none.
SaveFetchedNotOverwriting ==
    /\ pc = "persist"
    /\ fetched[Symbols[i]] # None
    /\ LET s == Symbols[i]
           p == fetched[s]
       IN IF r
          THEN \E ok \in BOOLEAN :
                    /\ writes' = Append(writes, SetCall(Key(s), json_dumps(p), ok))
                    /\ store' = IF ok /\ store[Key(s)] = Absent
                                 THEN [store EXCEPT ![Key(s)] = json_dumps(p)]
                                 ELSE store
                    /\ price_map' = [price_map EXCEPT ![s] = snapshot_of_fetch(p, ok)]
          ELSE /\ UNCHANGED <<writes, store>>
               /\ price_map' = [price_map EXCEPT ![s] = snapshot_of_fetch(p, TRUE)]
    /\ NextSymbol
    /\ UNCHANGED <<exit_reason, exit_code, config, r, resp, fetched, prompt,
                   openai_outcome, analysis, message, elapsed, to_sleep, connects,
                   online_sends, reads, sends, tg_result>>

\* Mutant of SaveFetched: a failing set drops the Redis client.
SaveFetchedDisablingOnFailure ==
    /\ pc = "persist"
    /\ fetched[Symbols[i]] # None
    /\ LET s == Symbols[i]
           p == fetched[s]
       IN IF r
          THEN \E ok \in BOOLEAN :
                    /\ writes' = Append(writes, SetCall(Key(s), json_dumps(p), ok))
                    /\ store' = IF ok THEN [store EXCEPT ![Key(s)] = json_dumps(p)]
                                 ELSE store
                    /\ r' = ok
                    /\ price_map' = [price_map EXCEPT ![s] = snapshot_of_fetch(p, ok)]
          ELSE /\ UNCHANGED <<writes, store, r>>
               /\ price_map' = [price_map EXCEPT ![s] = snapshot_of_fetch(p, TRUE)]
    /\ NextSymbol
    /\ UNCHANGED <<exit_reason, exit_code, config, resp, fetched, prompt,
                   openai_outcome, analysis, message, elapsed, to_sleep, connects,
                   online_sends, reads, sends, tg_result>>

\* Loop body, fetch succeeded: save_to_redis when connected (a failing set is
\* caught and logged), then the snapshot takes the fetched price.
SaveFetched ==
    /\ pc = "persist"
    /\ fetched[Symbols[i]] # None
    /\ LET s == Symbols[i]
           p == fetched[s]
       IN IF r
          THEN \E ok \in BOOLEAN :
                    /\ writes' = Append(writes, SetCall(Key(s), json_dumps(p), ok))
                    /\ store' = IF ok THEN [store EXCEPT ![Key(s)] = json_dumps(p)]
                                 ELSE store
                    /\ price_map' = [price_map EXCEPT ![s] = snapshot_of_fetch(p, ok)]
          ELSE /\ UNCHANGED <<writes, store>>
               /\ price_map' = [price_map EXCEPT ![s] = snapshot_of_fetch(p, TRUE)]
    /\ NextSymbol
    /\ UNCHANGED <<exit_reason, exit_code, config, r, resp, fetched, prompt,
                   openai_outcome, analysis, message, elapsed, to_sleep, connects,
                   online_sends, reads, sends, tg_result>>

\* Mutant of Fallback: the value read back is saved again.
FallbackWritingBack ==
    /\ pc = "persist"
    /\ fetched[Symbols[i]] = None
    /\ LET s == Symbols[i]
       IN IF r
          THEN /\ reads' = Append(reads, Key(s))
               /\ writes' = Append(writes, [key |-> Key(s), value |-> store[Key(s)],
                                            ok |-> TRUE])
               /\ price_map' = [price_map EXCEPT ![s] = snapshot_of_raw(store[Key(s)])]
          ELSE /\ UNCHANGED <<reads, writes>>
               /\ price_map' = [price_map EXCEPT ![s] = None]
    /\ NextSymbol
    /\ UNCHANGED <<exit_reason, exit_code, config, r, store, resp, fetched, prompt,
                   openai_outcome, analysis, message, elapsed, to_sleep, connects,
                   online_sends, sends, tg_result>>

\* Mutant of Fallback: the store is read whether the connection was made or
\* not.
FallbackReadingUnconnected ==
    /\ pc = "persist"
    /\ fetched[Symbols[i]] = None
    /\ LET s == Symbols[i]
       IN /\ reads' = Append(reads, Key(s))
          /\ price_map' = [price_map EXCEPT ![s] = snapshot_of_raw(store[Key(s)])]
    /\ NextSymbol
    /\ UNCHANGED <<exit_reason, exit_code, config, r, store, resp, fetched, prompt,
                   openai_outcome, analysis, message, elapsed, to_sleep, connects,
                   online_sends, writes, sends, tg_result>>

\* Loop body, fetch failed: the last stored value when connected, else None.
Fallback ==
    /\ pc = "persist"
    /\ fetched[Symbols[i]] = None
    /\ LET s == Symbols[i]
       IN IF r
          THEN /\ reads' = Append(reads, Key(s))
               /\ price_map' = [price_map EXCEPT ![s] = snapshot_of_raw(store[Key(s)])]
          ELSE /\ reads' = reads
               /\ price_map' = [price_map EXCEPT ![s] = None]
    /\ NextSymbol
    /\ UNCHANGED <<exit_reason, exit_code, config, r, store, resp, fetched, prompt,
                   openai_outcome, analysis, message, elapsed, to_sleep, connects,
                   online_sends, writes, sends, tg_result>>

\* Loop body, fetch failed and r.get raises: nothing catches it inside
\* periodic_task, main() logs it as fatal.
FallbackRaises ==
    /\ pc = "persist"
    /\ fetched[Symbols[i]] = None
    /\ r
    /\ reads' = Append(reads, Key(Symbols[i]))
    /\ Exit("fatal")
    /\ UNCHANGED <<config, r, store, connects, online_sends, writes, sends, tg_result>>

PromptOf(pm) == [n \in 1..NumSymbols |-> prompt_line(Symbols[n], pm[Symbols[n]])]
PromptRaises(pm) == \E n \in 1..NumSymbols : PromptOf(pm)[n] = Raised

\* The Telegram text: the listing and the footer.
MessageOf(pm, a) == [body |-> message_body(pm), footer |-> message_footer(a)]

\* openai_analyze without a key returns None before building the prompt; the
\* message is assembled and handed to send_telegram.
AnalyzeSkipped ==
    /\ pc = "analyze"
    /\ ~openai_set
    /\ openai_outcome' = "no_key"
    /\ analysis' = None
    /\ message' = MessageOf(price_map, None)
    /\ pc' = "send"
    /\ UNCHANGED <<exit_reason, exit_code, config, r, store, resp, fetched, i, price_map,
                   prompt, elapsed, to_sleep, calls, tg_result>>

\* openai_analyze with a key: the prompt is built and the completion request
\* is handed to the executor; the call passes no timeout and is not wrapped
\* in one.
AnalyzeRequest ==
    /\ pc = "analyze"
    /\ openai_set
    /\ ~PromptRaises(price_map)
    /\ prompt' = PromptOf(price_map)
    /\ pc' = "openai_wait"
    /\ UNCHANGED <<exit_reason, exit_code, config, r, store, resp, fetched, i, price_map,
                   openai_outcome, analysis, message, elapsed, to_sleep, calls,
                   tg_result>>

\* The completion request ends, with a response or an exception: every
\* failure of it gives None; the message is assembled and handed to
\* send_telegram.
Analyze ==
    /\ pc = "openai_wait"
    /\ \E outcome \in OpenAIOutcomes :
        /\ openai_outcome' = outcome
        /\ analysis' = openai_result(outcome)
        /\ message' = MessageOf(price_map, openai_result(outcome))
    /\ pc' = "send"
    /\ UNCHANGED <<exit_reason, exit_code, config, r, store, resp, fetched, i, price_map,
                   prompt, elapsed, to_sleep, calls, tg_result>>

\* openai_analyze with a key: v['price'] raises KeyError outside the try block.
AnalyzeRaises ==
    /\ pc = "analyze"
    /\ openai_set
    /\ PromptRaises(price_map)
    /\ Exit("fatal")
    /\ UNCHANGED <<config, r, store, calls, tg_result>>

\* Mutant of SendMessage: a post that fails is made once more.
SendMessageRetrying ==
    /\ pc = "send"
    /\ \E out \in TelegramOutcomes :
        /\ tg_result' = out
        /\ pc' = IF out = "ok" \/ sends >= 1 THEN "elapsed" ELSE "send"
    /\ sends' = sends + 1
    /\ resp' = AllSyms(NoResponse)
    /\ fetched' = AllSyms(Pending)
    /\ i' = 0
    /\ price_map' = AllSyms(Unset)
    /\ prompt' = <<>>
    /\ analysis' = None
    /\ openai_outcome' = ""
    /\ UNCHANGED <<exit_reason, exit_code, config, r, store, message, elapsed, to_sleep,
                   connects, online_sends, writes, reads>>

\* send_telegram(session, message): one post, its failure only logged.  The
\* snapshot and what it was built from are not read again in this iteration
\* and are dropped; the message stays.
SendMessage ==
    /\ pc = "send"
    /\ \E out \in TelegramOutcomes : tg_result' = out
    /\ sends' = sends + 1
    /\ pc' = "elapsed"
    /\ resp' = AllSyms(NoResponse)
    /\ fetched' = AllSyms(Pending)
    /\ i' = 0
    /\ price_map' = AllSyms(Unset)
    /\ prompt' = <<>>
    /\ analysis' = None
    /\ openai_outcome' = ""
    /\ UNCHANGED <<exit_reason, exit_code, config, r, store, message, elapsed, to_sleep,
                   connects, online_sends, writes, reads>>

\* elapsed = time.time() - start; to_sleep = max(0, POLL_INTERVAL - elapsed).
\* send_telegram has returned: its response is gone.
ComputeSleep ==
    /\ pc = "elapsed"
    /\ \E d \in Durations :
        /\ elapsed' = d
        /\ to_sleep' = sleep_time(d)
    /\ tg_result' = ""
    /\ pc' = "sleep"
    /\ UNCHANGED <<exit_reason, exit_code, config, r, store, resp, fetched, i, price_map,
                   prompt, openai_outcome, analysis, message, calls>>

\* asyncio.sleep(to_sleep) returns and the iteration ends; nothing of it is
\* read by the next one.
Sleep ==
    /\ pc = "sleep"
    /\ pc' = "loop"
    /\ message' = NoMessage
    /\ elapsed' = 0
    /\ to_sleep' = 0
    /\ UNCHANGED <<exit_reason, exit_code, config, r, store, resp, fetched, i, price_map,
                   prompt, openai_outcome, analysis, calls, tg_result>>

TaskPcs == {"connect", "online", "loop", "gather", "persist", "analyze",
            "openai_wait", "send", "elapsed", "sleep"}

\* Mutant of Interrupt: a last message is posted on the way out.
InterruptWithGoodbye ==
    /\ pc \in TaskPcs
    /\ Exit("interrupt")
    /\ sends' = sends + 1
    /\ UNCHANGED <<config, r, store, connects, online_sends, writes, reads, tg_result>>

\* KeyboardInterrupt while asyncio.run(periodic_task()) runs.
Interrupt ==
    /\ pc \in TaskPcs
    /\ Exit("interrupt")
    /\ UNCHANGED <<config, r, store, calls, tg_result>>

Next ==
    \/ MainMissingEnv
    \/ MainStart
    \/ Connect
    \/ SendOnline
    \/ BeginCycle
    \/ \E s \in SymSet : FetchReturns(s)
    \/ GatherReturns
    \/ SaveFetched
    \/ Fallback
    \/ FallbackRaises
    \/ AnalyzeSkipped
    \/ AnalyzeRequest
    \/ Analyze
    \/ AnalyzeRaises
    \/ SendMessage
    \/ ComputeSleep
    \/ Sleep
    \/ Interrupt

Spec == Init /\ [][Next]_vars

\* The steps the program itself brings to an end: local computation, the
\* sleep, the HTTP exchanges made with timeout=10 (fetch_price) and
\* timeout=20 (send_telegram), and the Redis calls, taken to return or raise.
\* The completion request is not among them: openai.ChatCompletion.create is
\* called without a timeout and is not wrapped in one, so the program does
\* nothing to make it return.  An interrupt comes from outside.
BoundedStep ==
    \/ MainMissingEnv
    \/ MainStart
    \/ Connect
    \/ SendOnline
    \/ BeginCycle
    \/ \E s \in SymSet : FetchReturns(s)
    \/ GatherReturns
    \/ SaveFetched
    \/ Fallback
    \/ FallbackRaises
    \/ AnalyzeSkipped
    \/ AnalyzeRequest
    \/ AnalyzeRaises
    \/ SendMessage
    \/ ComputeSleep
    \/ Sleep

LiveSpec == Spec /\ WF_vars(BoundedStep)

\* ----------------------------------------------------------- properties
Positions == 1..NumSymbols
WrittenKeys == {writes[k].key : k \in 1..Len(writes)}
FetchOk(s) == fetched[s].k = "float"
FetchFailed(s) == fetched[s] = None
HasRecord(s) == store[Key(s)].k = "raw_record"
\* The message is assembled and its post is in flight; the snapshot is live.
MessageReady == pc = "send"
\* The save/fallback loop has dealt with the symbol at position n.
LoopPcs == {"persist", "analyze", "openai_wait", "send"}
Processed(n) == pc \in LoopPcs /\ n < i

\* C1: every assembled message lists each tracked symbol exactly once, in the
\* order of SYMBOLS, each line a price or NA, whatever the fetches returned
\* and whatever the store holds.
C1_ListingComplete ==
    /\ pc \in {"send", "elapsed", "sleep"} => message # NoMessage
    /\ message # NoMessage =>
        /\ Len(message.body) = NumSymbols
        /\ \A n \in Positions :
            /\ message.body[n].sym = Symbols[n]
            /\ message.body[n].k \in {"price", "NA"}
        /\ \A s \in SymSet :
            Cardinality({n \in DOMAIN message.body : message.body[n].sym = s}) = 1

C1_Witness ==
    /\ MessageReady
    /\ \E s \in SymSet : FetchFailed(s)
    /\ \E s \in SymSet : FetchOk(s)
    /\ \E n \in Positions : message.body[n] = NALine(Symbols[n])
    /\ \E n \in Positions : message.body[n].k = "price"

\* C2: when fetch_price returned a price for a symbol, the message shows that
\* price for it, whatever the store holds and whether the save raised or not.
C2_FreshPriceShown ==
    MessageReady =>
        \A n \in Positions :
            FetchOk(Symbols[n]) =>
                message.body[n] = PriceLine(Symbols[n], fetched[Symbols[n]].v)

\* A save was attempted and failed: the store still holds another price.
C2_Witness ==
    /\ MessageReady
    /\ r
    /\ \E n \in Positions :
        /\ fetched[Symbols[n]] = Float(1)
        /\ Key(Symbols[n]) \in WrittenKeys
        /\ store[Key(Symbols[n])] = RawRecord(0)
        /\ message.body[n] = PriceLine(Symbols[n], 1)

StoredPriceShown ==
    \A n \in Positions :
        (FetchFailed(Symbols[n]) /\ HasRecord(Symbols[n])) =>
            message.body[n] = PriceLine(Symbols[n], store[Key(Symbols[n])].v)

\* C3 as claimed: when the fetch failed and the store holds a record for the
\* symbol, the message shows the record's price.
C3_StoredPriceShown == MessageReady => StoredPriceShown

\* C3 as amended: when the fetch failed, the store holds a record for the
\* symbol and the Redis connection was made at startup, the message shows the
\* record's price.
C3_StoredPriceShownWhenConnected == (MessageReady /\ r) => StoredPriceShown

C3_Witness ==
    /\ MessageReady
    /\ r
    /\ \E n \in Positions :
        /\ FetchFailed(Symbols[n])
        /\ store[Key(Symbols[n])] = RawRecord(1)
        /\ message.body[n] = PriceLine(Symbols[n], 1)

\* Responses the claim counts as failures: a status other than 200, a missing
\* or non-numeric price field, a price that is not positive.
BadResponses ==
    {RespNon200, RespMissing, RespNonNumeric}
        \cup {RespPrice(p) : p \in {q \in PriceValues : q <= 0}}

\* C4: a non-200 response, a missing or non-numeric price and a non-positive
\* price all count as a failed fetch: nothing is written for the symbol and
\* the message shows its stored price, or NA when there is none.
C4_BadResponseIsFailure ==
    \A n \in Positions :
        resp[Symbols[n]] \in BadResponses =>
            /\ fetched[Symbols[n]] = None
            /\ Key(Symbols[n]) \notin WrittenKeys
            /\ MessageReady =>
                message.body[n] =
                    IF r /\ HasRecord(Symbols[n])
                    THEN PriceLine(Symbols[n], store[Key(Symbols[n])].v)
                    ELSE NALine(Symbols[n])

\* C5: a cycle that has started is left only by posting its message or by an
\* interrupt; no failure of a fetch, of the store or of the summary ends it.
C5_CycleAlwaysSends ==
    [][(pc \in {"gather", "persist", "analyze", "openai_wait"} /\ pc' = "exited")
          => exit_reason' = "interrupt"]_vars

SummaryFailures == {"no_key", "request_error", "malformed", "empty"}

\* C6: when the summary is unavailable (no key, request error, malformed or
\* empty response) openai_analyze returns instead of raising, the footer of
\* the message is "(No analysis)" and the message is posted.
C6_SummaryFailureGivesPlaceholder ==
    /\ [](MessageReady /\ openai_outcome \in SummaryFailures =>
            /\ message.footer = NoAnalysis
            /\ Len(message.body) = NumSymbols)
    /\ [][(pc \in {"analyze", "openai_wait"} /\ openai_outcome' \in SummaryFailures)
            => pc' = "send"]_vars
    /\ [][(pc = "send" /\ openai_outcome \in SummaryFailures /\ pc' # "exited")
            => (pc' = "elapsed" /\ sends' = sends + 1)]_vars
    /\ [][(pc = "send" /\ pc' = "exited") => exit_reason' = "interrupt"]_vars

C6_Witness ==
    /\ MessageReady
    /\ openai_set
    /\ openai_outcome = "empty"
    /\ message.footer = NoAnalysis

WriteLogged(s) ==
    \E k \in 1..Len(writes) :
        /\ writes[k].key = Key(s)
        /\ writes[k].value = RawRecord(fetched[s].v)

\* C7 as claimed: every symbol whose fetch returned a price has a set call on
\* price:<symbol> in the cycle, with exactly that price.
C7_FetchedAlwaysWritten ==
    MessageReady => \A s \in SymSet : FetchOk(s) => WriteLogged(s)

\* C7 as amended: with the Redis connection made at startup, every symbol the
\* loop has dealt with and whose fetch returned a price has a set call on
\* price:<symbol> in the cycle, with exactly that price; without the
\* connection no set call is made.
C7_FetchedWrittenWhenConnected ==
    /\ r => \A n \in Positions :
                (Processed(n) /\ FetchOk(Symbols[n])) => WriteLogged(Symbols[n])
    /\ ~r => writes = <<>>

C7_Witness ==
    /\ MessageReady
    /\ r
    /\ \A s \in SymSet : fetched[s] = Float(1)
    /\ Len(writes) = NumSymbols
    /\ \A s \in SymSet : WriteLogged(s)

\* C8 as claimed: the symbols written in a cycle are exactly the symbols whose
\* fetch returned a price.
C8_WritesExactlyFetched ==
    MessageReady => WrittenKeys = {Key(s) : s \in {x \in SymSet : FetchOk(x)}}

\* C8 as amended: with the Redis connection made at startup, the symbols
\* written so far in a cycle are exactly the symbols the loop has dealt with
\* whose fetch returned a price, each written once; without the connection
\* nothing is written; and a symbol whose fetch failed keeps its stored value.
C8_WritesExactlyFetchedWhenConnected ==
    /\ [](pc \in LoopPcs =>
            /\ WrittenKeys =
                 IF r
                 THEN {Key(Symbols[n]) :
                         n \in {m \in Positions : Processed(m) /\ FetchOk(Symbols[m])}}
                 ELSE {}
            /\ Len(writes) = Cardinality(WrittenKeys))
    /\ [][\A s \in SymSet : FetchFailed(s) => store'[Key(s)] = store[Key(s)]]_vars

C8_Witness ==
    /\ MessageReady
    /\ r
    /\ FetchOk(Symbols[1])
    /\ FetchFailed(Symbols[2])
    /\ HasRecord(Symbols[2])
    /\ WrittenKeys = {Key(Symbols[1])}
    /\ Len(writes) = 1
    /\ reads = <<Key(Symbols[2])>>

\* C9: when the fetch failed and the store holds nothing for the symbol, the
\* message shows NA for it; when that is so for every symbol and there is no
\* OpenAI key, the message is NA throughout with the footer "(No analysis)".
C9_NoRecordShowsNA ==
    MessageReady =>
        /\ \A n \in Positions :
            (FetchFailed(Symbols[n]) /\ store[Key(Symbols[n])] = Absent) =>
                message.body[n] = NALine(Symbols[n])
        /\ ((\A s \in SymSet : FetchFailed(s) /\ store[Key(s)] = Absent) /\ ~openai_set) =>
                message = [body |-> [n \in Positions |-> NALine(Symbols[n])],
                           footer |-> NoAnalysis]

C9_Witness ==
    /\ MessageReady
    /\ r
    /\ ~openai_set
    /\ \A s \in SymSet : FetchFailed(s) /\ store[Key(s)] = Absent
    /\ reads = [n \in Positions |-> Key(Symbols[n])]
    /\ message.footer = NoAnalysis

\* C10: the sleep after a cycle is the interval less the time the cycle took,
\* and zero when the cycle took longer: 260 after 40, 0 after 310; never
\* negative.
C10_SleepIsRemainder ==
    pc = "sleep" =>
        /\ to_sleep >= 0
        /\ elapsed <= POLL_INTERVAL => to_sleep + elapsed = POLL_INTERVAL
        /\ elapsed > POLL_INTERVAL => to_sleep = 0
        /\ elapsed = 40 => to_sleep = 260
        /\ elapsed = 310 => to_sleep = 0

C10_Witness ==
    /\ pc = "sleep"
    /\ elapsed > POLL_INTERVAL
    /\ to_sleep = 0

\* C11: the Redis connection is attempted once, before the loop, and never
\* again; when it failed no get or set is ever issued, every failed fetch is
\* shown as NA, and the cycles still run and post their message.
C11_ConnectOnceThenDisabled ==
    /\ [](/\ connects <= 1
          /\ pc = "connect" => connects = 0
          /\ pc \in (TaskPcs \ {"connect"}) => connects = 1)
    /\ [](~r => (writes = <<>> /\ reads = <<>>))
    /\ []((MessageReady /\ ~r) =>
            \A n \in Positions :
                FetchFailed(Symbols[n]) => message.body[n] = NALine(Symbols[n]))
    /\ [][pc # "connect" => (r' = r /\ connects' = connects)]_vars
    /\ [][(~r /\ pc \in (TaskPcs \ {"connect"}) /\ pc' = "exited")
            => exit_reason' = "interrupt"]_vars
    /\ [][(~r /\ pc = "send" /\ pc' # "exited") => sends' = sends + 1]_vars

\* The connection failed and a record that the store holds is shown as NA.
C11_Witness ==
    /\ MessageReady
    /\ ~r
    /\ connects = 1
    /\ \E n \in Positions :
        /\ FetchFailed(Symbols[n])
        /\ HasRecord(Symbols[n])
        /\ message.body[n] = NALine(Symbols[n])

\* C12: the exit status is non-zero when a Telegram credential is missing at
\* startup and when a fatal error escapes the loop, and zero on an interrupt;
\* a missing OpenAI key alone does not end the process.
C12_ExitStatus ==
    /\ pc = "exited" =>
        /\ exit_reason \in {"missing_env", "fatal"} => exit_code # 0
        /\ exit_reason = "interrupt" => exit_code = 0
    /\ (telegram_set /\ ~openai_set) => exit_reason # "missing_env"

\* C13: the cycle's message is posted only after the save/fallback loop has
\* handled every symbol and openai_analyze has returned; from the post to the
\* end of the cycle no r.set, no r.get and no completion request is made.
C13_SendIsLast ==
    /\ [](pc = "send" =>
            /\ i = NumSymbols + 1
            /\ \A s \in SymSet : price_map[s] # Unset
            /\ r => Len(writes) + Len(reads) = NumSymbols
            /\ openai_outcome # ""
            /\ sends = 0)
    /\ []((sends > 0 /\ pc \in TaskPcs) => pc \in {"elapsed", "sleep", "loop"})
    /\ [][sends' > sends => pc = "send"]_vars
    /\ [][(pc \in {"send", "elapsed", "sleep"}) =>
            (/\ writes' = writes
             /\ reads' = reads
             /\ store' = store
             /\ pc' \notin {"persist", "analyze", "openai_wait"})]_vars

\* A cycle that wrote, read and got its summary has posted its message.
C13_Witness ==
    /\ pc = "elapsed"
    /\ sends = 1
    /\ writes # <<>>
    /\ reads # <<>>
    /\ message.footer = SummaryText

\* The fetch results of the running cycle that have come back.
Returned == {s \in SymSet : fetched[s] # Pending}

\* C14: the fetch tasks are independent and joined: whatever the order in
\* which they return, a task's return changes no other task's result, each
\* result is the one of its own symbol's exchange, and no r.set or r.get is
\* made before every task has returned.
C14_FetchesIndependentAndJoined ==
    /\ [][(pc = "gather" /\ pc' # "exited") =>
            (\A s \in SymSet :
                /\ s \in Returned => (fetched'[s] = fetched[s] /\ resp'[s] = resp[s])
                /\ fetched'[s] # fetched[s] =>
                        (\A u \in SymSet \ {s} : fetched'[u] = fetched[u]))]_vars
    /\ [](\A s \in SymSet :
            /\ pc = "gather" => (fetched[s] = Pending <=> resp[s] = NoResponse)
            /\ resp[s].k = "200_price" => fetched[s] = Float(resp[s].v)
            /\ resp[s] \in {RespException, RespNon200, RespNonNumeric}
                    => fetched[s] = None)
    /\ [](pc = "gather" => (writes = <<>> /\ reads = <<>> /\ i = 0))
    /\ [][pc = "gather" => store' = store]_vars
    /\ [](pc \in LoopPcs => Returned = SymSet)

\* The second symbol's fetch came back first and failed while the first
\* symbol's fetch is still running.
C14_Witness ==
    /\ pc = "gather"
    /\ fetched[Symbols[1]] = Pending
    /\ resp[Symbols[2]] = RespException
    /\ fetched[Symbols[2]] = None

\* C15: the completion request is bounded: a cycle that waits for the
\* summary service goes on to its post, and every cycle that has started its
\* fetches reaches its sleep, unless the process ends first.
C15_SummaryNeverBlocks ==
    /\ (pc = "openai_wait") ~> (pc \in {"send", "exited"})
    /\ (pc = "gather") ~> (pc \in {"sleep", "exited"})

\* The scheduler's states: a cycle is running, the task sleeps between two
\* cycles, the process has ended.
Running == pc \in {"gather", "persist", "analyze", "openai_wait", "send", "elapsed"}
Idle == pc = "sleep"
Terminated == pc = "exited"

\* C16: cycles never overlap: a cycle's fetches start only from the top of
\* the loop, which is reached only from the startup message or from the end
\* of the previous cycle's sleep, after its one post.  The task ends only by
\* an interrupt or a fatal error, nothing follows the end, and an interrupt
\* makes no store call and posts no message.
C16_CyclesSequentialAndTerminal ==
    /\ [](pc \in TaskPcs \ {"connect", "online", "loop"} => (Running \/ Idle))
    /\ [][(pc' = "gather" /\ pc # "gather") => pc = "loop"]_vars
    /\ [][(pc' = "loop" /\ pc # "loop") =>
            (pc = "online" \/ (Idle /\ sends = 1))]_vars
    /\ [](pc = "gather" => (sends = 0 /\ message = NoMessage /\ writes = <<>>
                             /\ reads = <<>>))
    /\ [](sends <= 1)
    /\ [][(pc \in TaskPcs /\ Terminated') =>
            exit_reason' \in {"interrupt", "fatal"}]_vars
    /\ [][Terminated => UNCHANGED vars]_vars
    /\ [][(pc \in TaskPcs /\ exit_reason' = "interrupt") =>
            (Terminated' /\ UNCHANGED <<calls, store, tg_result>>)]_vars

\* The task was interrupted in the middle of a cycle, after a write and
\* before the post, and no message was posted.
C16_Witness ==
    /\ Terminated
    /\ exit_reason = "interrupt"
    /\ writes # <<>>
    /\ sends = 0

\* C17: a failed post is not retried and changes nothing in the control
\* flow: the startup message is posted once, before the first cycle, each
\* cycle posts once, and whatever the post's result the task goes on to the
\* loop, to the sleep and to the next cycle.
C17_SendOnceAndGoOn ==
    /\ [](online_sends <= 1 /\ sends <= 1)
    /\ [](pc \in {"main", "connect", "online"} => online_sends = 0)
    /\ []((Running \/ Idle \/ pc = "loop") => online_sends = 1)
    /\ [](pc \in {"gather", "persist", "analyze", "openai_wait", "send"} => sends = 0)
    /\ [](pc \in {"elapsed", "sleep"} => sends = 1)
    /\ [][(pc = "online" /\ ~Terminated') =>
            (pc' = "loop" /\ online_sends' = online_sends + 1)]_vars
    /\ [][(pc = "send" /\ ~Terminated') =>
            (pc' = "elapsed" /\ sends' = sends + 1)]_vars
    /\ [][(pc = "elapsed" /\ ~Terminated') => pc' = "sleep"]_vars
    /\ [][(Idle /\ ~Terminated') => pc' = "loop"]_vars
    /\ [][(pc = "loop" /\ ~Terminated') => pc' = "gather"]_vars
    /\ [][(pc \in {"online", "send", "elapsed", "sleep", "loop"} /\ Terminated')
            => exit_reason' = "interrupt"]_vars

\* A cycle's post has failed with an exception and the task is on its way
\* to the sleep.
C17_Witness ==
    /\ pc = "elapsed"
    /\ tg_result = "exception"
    /\ sends = 1
    /\ online_sends = 1

\* The symbol the save/fallback loop is at.
Current == Symbols[i]

\* The last r.set call logged by the step.
LastWrite == writes'[Len(writes')]

\* C18: with the connection made, the store changes only by a set that
\* returned, which puts the price just fetched for the loop's symbol under
\* that symbol's key, over whatever was there; a failed fetch changes nothing
\* and takes the price of the record the key holds.  So a key holds the price
\* of the last fetch of its symbol whose set returned, and the listing shows
\* for a symbol either the price fetched this cycle or, after a failed fetch,
\* the price the store holds.
C18_StoreHoldsLastSaved ==
    /\ [][store' # store =>
            (/\ pc = "persist"
             /\ r
             /\ FetchOk(Current)
             /\ LastWrite = SetCall(Key(Current), RawRecord(fetched[Current].v), TRUE)
             /\ Len(writes') = Len(writes) + 1
             /\ store' = [store EXCEPT ![Key(Current)] = RawRecord(fetched[Current].v)])]_vars
    /\ [](pc \in LoopPcs =>
            \A k \in 1..Len(writes) :
                writes[k].ok => store[writes[k].key] = writes[k].value)
    /\ [][(pc = "persist" /\ r /\ FetchFailed(Current) /\ HasRecord(Current)
                /\ pc' # "exited") =>
            (/\ store' = store
             /\ price_map'[Current] = Dict(store[Key(Current)].v))]_vars
    /\ []((MessageReady /\ r) =>
            \A n \in Positions :
                LET s == Symbols[n]
                IN /\ (FetchFailed(s) /\ HasRecord(s))
                        => message.body[n] = PriceLine(s, store[Key(s)].v)
                   /\ message.body[n].k = "price" =>
                        \/ FetchOk(s) /\ message.body[n].v = fetched[s].v
                        \/ /\ FetchFailed(s)
                           /\ HasRecord(s)
                           /\ message.body[n].v = store[Key(s)].v)

\* The first symbol's price was saved over its record, the second symbol's
\* fetch failed and the listing shows the price of the second symbol's
\* record.
C18_Witness ==
    /\ MessageReady
    /\ r
    /\ writes = <<SetCall(Key(Symbols[1]), RawRecord(MaxPrice), TRUE)>>
    /\ store[Key(Symbols[1])] = RawRecord(MaxPrice)
    /\ FetchFailed(Symbols[2])
    /\ store[Key(Symbols[2])] = RawRecord(0)
    /\ message.body[2] = PriceLine(Symbols[2], 0)

\* C19: a set that raises skips only that write: the store and the client
\* are left as they were, the loop goes on to the next symbol with the fetched
\* price in the snapshot, and every later symbol and every later cycle still
\* gets its set call.
C19_WriteFailureSkipsOnlyThatWrite ==
    /\ [][(pc = "persist" /\ Len(writes') > Len(writes) /\ ~LastWrite.ok) =>
            (/\ store' = store
             /\ r' = r
             /\ i' = i + 1
             /\ pc' = IF i = NumSymbols THEN "analyze" ELSE "persist"
             /\ price_map'[Current] = Dict(fetched[Current].v))]_vars
    /\ [][pc # "connect" => r' = r]_vars
    /\ []((pc \in LoopPcs /\ r) =>
            \A n \in Positions :
                (n < i /\ FetchOk(Symbols[n])) =>
                    \E k \in 1..Len(writes) :
                        /\ writes[k].key = Key(Symbols[n])
                        /\ writes[k].value = RawRecord(fetched[Symbols[n]].v))

\* The first symbol's set raised and left the record as it was; the second
\* symbol's set was made and returned.
C19_Witness ==
    /\ pc = "analyze"
    /\ Len(writes) = 2
    /\ ~writes[1].ok
    /\ writes[1].key = Key(Symbols[1])
    /\ store[Key(Symbols[1])] # writes[1].value
    /\ writes[2].ok
    /\ store[Key(Symbols[2])] = writes[2].value

\* C20: whatever the store holds under a symbol's key, a cycle in which that
\* symbol's fetch failed and the key was read goes from openai_analyze on to
\* its post, with or without the OpenAI key; the message shows the stored
\* price when the record has one and NA otherwise, and the prompt listing,
\* when one is built, shows the same lines as the message.
C20_AnyStoredValueIsRendered ==
    /\ [][(pc = "analyze" /\ r /\ (\E s \in SymSet : FetchFailed(s)) /\ Terminated')
            => exit_reason' = "interrupt"]_vars
    /\ []((MessageReady /\ r) =>
            \A n \in Positions :
                FetchFailed(Symbols[n]) =>
                    message.body[n] =
                        IF HasRecord(Symbols[n])
                        THEN PriceLine(Symbols[n], store[Key(Symbols[n])].v)
                        ELSE NALine(Symbols[n]))
    /\ []((MessageReady /\ openai_set) => prompt = message.body)

====
